---- MODULE Spec2Model ----
(***************************************************************************)
(* In-memory item catalog of src/main.py: the list items_db, the counter   *)
(* item_id_counter, the seven request handlers and match_condition.        *)
(*                                                                         *)
(* JSON / Python values are records [t, n, s, l]: t is the Python type     *)
(* ("null" for None, "num" for int/float, "str", "list", and "unset" for a *)
(* field a request body left out), n the number, s the string as a         *)
(* sequence of code points, l the elements of a list.                      *)
(***************************************************************************)
EXTENDS Integers, Sequences, FiniteSets, TLC

VARIABLES items_db, item_id_counter, last, createdIds, deletedIds, threads

vars == <<items_db, item_id_counter, last, createdIds, deletedIds, threads>>

\* ---------------------------------------------------------------- bounds
MaxCreates == 2
MaxIds == 2

\* ------------------------------------------------------ field constraints
MinNameLen == 1
MaxNameLen == 100
MaxDescLen == 300

\* ---------------------------------------------------------------- values
None == [t |-> "null", n |-> 0, s |-> <<>>, l |-> <<>>]
Unset == [t |-> "unset", n |-> 0, s |-> <<>>, l |-> <<>>]
Num(k) == [t |-> "num", n |-> k, s |-> <<>>, l |-> <<>>]
Str(q) == [t |-> "str", n |-> 0, s |-> q, l |-> <<>>]
PyList(e) == [t |-> "list", n |-> 0, s |-> <<>>, l |-> e]
\* a bound method of the model object, such as item.dict
Method == [t |-> "method", n |-> 0, s |-> <<>>, l |-> <<>>]

\* lexicographic order of two strings (sequences of code points)
RECURSIVE StrLt(_, _)
StrLt(a, b) ==
    IF b = <<>> THEN FALSE
    ELSE IF a = <<>> THEN TRUE
    ELSE IF Head(a) # Head(b) THEN Head(a) < Head(b)
    ELSE StrLt(Tail(a), Tail(b))

\* Python ==  between a field value (num or str) and a JSON value
PyEq(a, b) ==
    IF a.t = "num" /\ b.t = "num" THEN a.n = b.n
    ELSE IF a.t = "str" /\ b.t = "str" THEN a.s = b.s
    ELSE FALSE

\* Python <, >, <=, >= are defined between two numbers or two strings only
Comparable(a, b) ==
    \/ a.t = "num" /\ b.t = "num"
    \/ a.t = "str" /\ b.t = "str"

PyLt(a, b) == IF a.t = "num" THEN a.n < b.n ELSE StrLt(a.s, b.s)

\* ----------------------------------------------------------------- models
\* description declared str instead of Optional[str]
ItemValidDescRequired(d) ==
    /\ d.name.t = "str"
    /\ Len(d.name.s) >= MinNameLen
    /\ Len(d.name.s) <= MaxNameLen
    /\ d.description.t = "str"
    /\ Len(d.description.s) <= MaxDescLen
    /\ d.price.t = "num"
    /\ d.price.n > 0

\* Item(**data): the field constraints of ItemBase, checked by the constructor
ItemValid(d) ==
    /\ d.name.t = "str"
    /\ Len(d.name.s) >= MinNameLen
    /\ Len(d.name.s) <= MaxNameLen
    /\ d.description.t \in {"null", "str"}
    /\ Len(d.description.s) <= MaxDescLen
    /\ d.price.t = "num"
    /\ d.price.n > 0

\* dict(exclude_none=True): an explicit None is dropped like a field left out
FieldSetNotNone(v) == v.t \notin {"unset", "null"}

\* ItemUpdate: every field optional; None passes the validation
FieldSet(v) == v.t # "unset"

NoPatch == [name |-> Unset, description |-> Unset, price |-> Unset]

\* item_update.dict() without exclude_unset: a field left out arrives as None
UpdatedDataNoExclude(item, patch) ==
    [id |-> item.id,
     name |-> IF FieldSet(patch.name) THEN patch.name ELSE None,
     description |-> IF FieldSet(patch.description) THEN patch.description ELSE None,
     price |-> IF FieldSet(patch.price) THEN patch.price ELSE None]

\* item.dict() updated with item_update.dict(exclude_unset=True)
UpdatedData(item, patch) ==
    [id |-> item.id,
     name |-> IF FieldSet(patch.name) THEN patch.name ELSE item.name,
     description |-> IF FieldSet(patch.description) THEN patch.description
                     ELSE item.description,
     price |-> IF FieldSet(patch.price) THEN patch.price ELSE item.price]

NewItem(counter, draft) ==
    [id |-> counter, name |-> draft.name, description |-> draft.description,
     price |-> draft.price]

\* the scan stops one item short of the end of the list
RECURSIVE FindFromSkipLast(_, _, _)
FindFromSkipLast(db, item_id, idx) ==
    IF idx >= Len(db) THEN 0
    ELSE IF db[idx].id = item_id THEN idx
    ELSE FindFromSkipLast(db, item_id, idx + 1)

\* index of the first item with the id, 0 when there is none
RECURSIVE FindFrom(_, _, _)
FindFrom(db, item_id, idx) ==
    IF idx > Len(db) THEN 0
    ELSE IF db[idx].id = item_id THEN idx
    ELSE FindFrom(db, item_id, idx + 1)

Find(db, item_id) == FindFrom(db, item_id, 1)

\* items_db.pop() without the index removes the last item
PopLast(db, idx) == [i \in 1..(Len(db) - 1) |-> db[i]]

\* items_db.pop(idx)
Pop(db, idx) == [i \in 1..(Len(db) - 1) |-> IF i < idx THEN db[i] ELSE db[i + 1]]

\* ------------------------------------------------------------- responses
NoDetail == [msg |-> "", id |-> 0]

Response(op, status, detail, ret) ==
    [op |-> op, status |-> status, detail |-> detail, ret |-> ret,
     id |-> 0, ids |-> <<>>, conds |-> <<>>, iop |-> "", patch |-> NoPatch,
     draft |-> NoPatch]

NotFound == [msg |-> "Item not found", id |-> 0]
NotFoundId(item_id) == [msg |-> "Item with id not found", id |-> item_id]
NoMatch == [msg |-> "No items matched the conditions", id |-> 0]
ValidationError == [msg |-> "ValidationError", id |-> 0]
TypeError == [msg |-> "TypeError", id |-> 0]

\* the worker threads that run the handlers of concurrent requests, and
\* the locals of create_item in a thread that is not running it
Threads == {1, 2}
Idle == [pc |-> "idle", item |-> NoPatch, new_item |-> <<>>, loaded |-> 0]

Init ==
    /\ items_db = <<>>
    /\ item_id_counter = 1
    /\ last = Response("init", "", NoDetail, <<>>)
    /\ createdIds = <<>>
    /\ deletedIds = {}
    /\ threads = [t \in Threads |-> Idle]

\* ------------------------------------------------------------ POST /items
\* the counter is not incremented
CreateItemNoIncrement(db, counter, draft) ==
    LET new_item == NewItem(counter, draft) IN
    [db |-> Append(db, new_item), counter |-> counter, status |-> "201",
     detail |-> NoDetail, ret |-> <<new_item>>]

\* the id is taken from the length of the list instead of the counter
CreateItemLenId(db, counter, draft) ==
    LET new_item == NewItem(Len(db) + 1, draft) IN
    [db |-> Append(db, new_item), counter |-> counter + 1, status |-> "201",
     detail |-> NoDetail, ret |-> <<new_item>>]

\* items_db.insert(0, new_item) instead of append
CreateItemPrepend(db, counter, draft) ==
    LET new_item == NewItem(counter, draft) IN
    [db |-> <<new_item>> \o db, counter |-> counter + 1, status |-> "201",
     detail |-> NoDetail, ret |-> <<new_item>>]

CreateItem(db, counter, draft) ==
    LET new_item == NewItem(counter, draft) IN
    [db |-> Append(db, new_item), counter |-> counter + 1, status |-> "201",
     detail |-> NoDetail, ret |-> <<new_item>>]

create_item(item) ==
    /\ LET r == CreateItem(items_db, item_id_counter, item) IN
        /\ items_db' = r.db
        /\ item_id_counter' = r.counter
        /\ last' = [Response("create_item", r.status, r.detail, r.ret)
                        EXCEPT !.draft = item]
        /\ createdIds' = Append(createdIds, r.ret[1].id)
    /\ UNCHANGED deletedIds
    /\ UNCHANGED threads

\* create_item as run by worker thread t, one step per statement; the
\* statement item_id_counter += 1 is a load of the global followed by a store
\* new_item = Item(id=item_id_counter, **item.dict())
create_item_build(t, item) ==
    /\ threads[t].pc = "idle"
    /\ threads' = [threads EXCEPT ![t] =
            [pc |-> "append", item |-> item,
             new_item |-> <<NewItem(item_id_counter, item)>>, loaded |-> 0]]
    /\ UNCHANGED <<items_db, item_id_counter, last, createdIds, deletedIds>>

\* items_db.append(new_item)
create_item_append(t) ==
    /\ threads[t].pc = "append"
    /\ items_db' = Append(items_db, threads[t].new_item[1])
    /\ threads' = [threads EXCEPT ![t].pc = "load"]
    /\ UNCHANGED <<item_id_counter, last, createdIds, deletedIds>>

\* item_id_counter += 1, the read of the global
create_item_load(t) ==
    /\ threads[t].pc = "load"
    /\ threads' = [threads EXCEPT ![t].pc = "store", ![t].loaded = item_id_counter]
    /\ UNCHANGED <<items_db, item_id_counter, last, createdIds, deletedIds>>

\* item_id_counter += 1, the write of the global
create_item_store(t) ==
    /\ threads[t].pc = "store"
    /\ item_id_counter' = threads[t].loaded + 1
    /\ threads' = [threads EXCEPT ![t].pc = "return"]
    /\ UNCHANGED <<items_db, last, createdIds, deletedIds>>

\* return new_item
create_item_return(t) ==
    /\ threads[t].pc = "return"
    /\ last' = [Response("create_item", "201", NoDetail, threads[t].new_item)
                    EXCEPT !.draft = threads[t].item]
    /\ createdIds' = Append(createdIds, threads[t].new_item[1].id)
    /\ threads' = [threads EXCEPT ![t] = Idle]
    /\ UNCHANGED <<items_db, item_id_counter, deletedIds>>

\* ------------------------------------------------------------- GET /items
get_items ==
    /\ last' = Response("get_items", "200", NoDetail, items_db)
    /\ UNCHANGED <<items_db, item_id_counter, createdIds, deletedIds>>
    /\ UNCHANGED threads

\* -------------------------------------------------------- GET /items/{id}
GetItem(db, item_id) ==
    LET idx == Find(db, item_id) IN
    IF idx # 0 THEN [status |-> "200", detail |-> NoDetail, ret |-> <<db[idx]>>]
    ELSE [status |-> "404", detail |-> NotFound, ret |-> <<>>]

get_item(item_id) ==
    /\ LET r == GetItem(items_db, item_id) IN
        last' = [Response("get_item", r.status, r.detail, r.ret) EXCEPT !.id = item_id]
    /\ UNCHANGED <<items_db, item_id_counter, createdIds, deletedIds>>
    /\ UNCHANGED threads

\* -------------------------------------------------------- PUT /items/{id}
\* the merged data is stored without building an Item (no validation)
UpdateItemNoValidation(db, item_id, patch) ==
    LET idx == Find(db, item_id) IN
    IF idx = 0
    THEN [db |-> db, status |-> "404", detail |-> NotFound, ret |-> <<>>]
    ELSE LET updated_item == UpdatedData(db[idx], patch) IN
         [db |-> [db EXCEPT ![idx] = updated_item], status |-> "200",
          detail |-> NoDetail, ret |-> <<updated_item>>]

UpdateItem(db, item_id, patch) ==
    LET idx == Find(db, item_id) IN
    IF idx = 0
    THEN [db |-> db, status |-> "404", detail |-> NotFound, ret |-> <<>>]
    ELSE LET updated_item == UpdatedData(db[idx], patch) IN
         IF ~ItemValid(updated_item)
         THEN [db |-> db, status |-> "500", detail |-> ValidationError, ret |-> <<>>]
         ELSE [db |-> [db EXCEPT ![idx] = updated_item], status |-> "200",
               detail |-> NoDetail, ret |-> <<updated_item>>]

update_item(item_id, item_update) ==
    /\ LET r == UpdateItem(items_db, item_id, item_update) IN
        /\ items_db' = r.db
        /\ last' = [Response("update_item", r.status, r.detail, r.ret)
                        EXCEPT !.id = item_id, !.patch = item_update]
    /\ UNCHANGED <<item_id_counter, createdIds, deletedIds>>
    /\ UNCHANGED threads

\* ------------------------------------------------- PUT /items_batch_update
\* the loop over items.item_ids from position k on; updated_items so far
RECURSIVE BatchLoop(_, _, _, _, _)
BatchLoop(db, item_ids, patch, k, updated_items) ==
    IF k > Len(item_ids)
    THEN [db |-> db, status |-> "200", detail |-> NoDetail, ret |-> updated_items]
    ELSE LET idx == Find(db, item_ids[k]) IN
         IF idx = 0
         THEN [db |-> db, status |-> "404", detail |-> NotFoundId(item_ids[k]),
               ret |-> <<>>]
         ELSE LET updated_item == UpdatedData(db[idx], patch) IN
              IF ~ItemValid(updated_item)
              THEN [db |-> db, status |-> "500", detail |-> ValidationError,
                    ret |-> <<>>]
              ELSE BatchLoop([db EXCEPT ![idx] = updated_item], item_ids, patch,
                             k + 1, Append(updated_items, updated_item))

BatchUpdateItems(db, item_ids, patch) == BatchLoop(db, item_ids, patch, 1, <<>>)

batch_update_items(item_ids, item_update) ==
    /\ LET r == BatchUpdateItems(items_db, item_ids, item_update) IN
        /\ items_db' = r.db
        /\ last' = [Response("batch_update_items", r.status, r.detail, r.ret)
                        EXCEPT !.ids = item_ids, !.patch = item_update]
    /\ UNCHANGED <<item_id_counter, createdIds, deletedIds>>
    /\ UNCHANGED threads

\* ------------------------------------------------------- match_condition
\* getattr(item, condition.key, 0): the default is a number instead of None
GetAttrDefaultZero(item, key) ==
    IF key = "id" THEN Num(item.id)
    ELSE IF key = "name" THEN item.name
    ELSE IF key = "description" THEN item.description
    ELSE IF key = "price" THEN item.price
    ELSE IF key = "dict" THEN Method
    ELSE Num(0)

\* getattr(item, condition.key, None)
GetAttr(item, key) ==
    IF key = "id" THEN Num(item.id)
    ELSE IF key = "name" THEN item.name
    ELSE IF key = "description" THEN item.description
    ELSE IF key = "price" THEN item.price
    ELSE IF key = "dict" THEN Method
    ELSE None

\* item_value in val: equality with some element of the list
InList(item_value, val) == \E i \in 1..Len(val.l) : PyEq(item_value, val.l[i])

\* item_value in val on any value: a substring test on a string
Contains(hay, needle) ==
    \E i \in 0..(Len(hay) - Len(needle)) :
        \A j \in 1..Len(needle) : hay[i + j] = needle[j]

InAny(item_value, val) ==
    IF val.t = "list" THEN InList(item_value, val)
    ELSE val.t = "str" /\ item_value.t = "str" /\ Contains(val.s, item_value.s)

Bool(b) == IF b THEN "True" ELSE "False"

\* IN without the isinstance(val, list) test
match_condition_NoListTest(item, condition) ==
    LET item_value == GetAttr(item, condition.key)
        op == condition.operation
        val == condition.value
    IN  IF item_value.t = "null" THEN "False"
        ELSE IF op = "=" THEN Bool(PyEq(item_value, val))
        ELSE IF op \in {">", "<", ">=", "<="} THEN
            IF ~Comparable(item_value, val) THEN "TypeError"
            ELSE IF op = ">" THEN Bool(PyLt(val, item_value))
            ELSE IF op = "<" THEN Bool(PyLt(item_value, val))
            ELSE IF op = ">=" THEN Bool(~PyLt(item_value, val))
            ELSE Bool(~PyLt(val, item_value))
        ELSE IF op = "IN" THEN
            IF val.t \in {"list", "str"} THEN Bool(InAny(item_value, val))
            ELSE "TypeError"
        ELSE "False"

\* without the early return for a None item_value: None == None is True,
\* None in [None] is True, an ordering comparison of None raises
match_condition_NoNoneTest(item, condition) ==
    LET item_value == GetAttr(item, condition.key)
        op == condition.operation
        val == condition.value
        eq(a, b) == (a.t = "null" /\ b.t = "null") \/ PyEq(a, b)
    IN  IF op = "=" THEN Bool(eq(item_value, val))
        ELSE IF op \in {">", "<", ">=", "<="} THEN
            IF ~Comparable(item_value, val) THEN "TypeError"
            ELSE IF op = ">" THEN Bool(PyLt(val, item_value))
            ELSE IF op = "<" THEN Bool(PyLt(item_value, val))
            ELSE IF op = ">=" THEN Bool(~PyLt(item_value, val))
            ELSE Bool(~PyLt(val, item_value))
        ELSE IF op = "IN" THEN
            IF val.t = "list"
            THEN Bool(\E i \in 1..Len(val.l) : eq(item_value, val.l[i]))
            ELSE "False"
        ELSE "False"

\* The result is "True", "False", or "TypeError" when the comparison raises.
match_condition(item, condition) ==
    LET item_value == GetAttr(item, condition.key)
        op == condition.operation
        val == condition.value
    IN  IF item_value.t = "null" THEN "False"
        ELSE IF op = "=" THEN Bool(PyEq(item_value, val))
        ELSE IF op \in {">", "<", ">=", "<="} THEN
            IF ~Comparable(item_value, val) THEN "TypeError"
            ELSE IF op = ">" THEN Bool(PyLt(val, item_value))
            ELSE IF op = "<" THEN Bool(PyLt(item_value, val))
            ELSE IF op = ">=" THEN Bool(~PyLt(item_value, val))
            ELSE Bool(~PyLt(val, item_value))
        ELSE IF op = "IN" THEN
            IF val.t = "list" THEN Bool(InList(item_value, val)) ELSE "False"
        ELSE "False"

\* ------------------------------------------ PUT /items_conditional_update
\* results = [match_condition(item, cond) for cond in payload.conditions]
Results(item, conditions) ==
    [c \in 1..Len(conditions) |-> match_condition(item, conditions[c])]

Raises(item, conditions) ==
    \E c \in 1..Len(conditions) : Results(item, conditions)[c] = "TypeError"

\* all() and any() exchanged
MatchedSwapped(item, conditions, internal_operation) ==
    IF internal_operation = "AND"
    THEN \E c \in 1..Len(conditions) : Results(item, conditions)[c] = "True"
    ELSE \A c \in 1..Len(conditions) : Results(item, conditions)[c] = "True"

\* all() of an empty list taken as False
MatchedNonEmpty(item, conditions, internal_operation) ==
    IF internal_operation = "AND"
    THEN /\ conditions # <<>>
         /\ \A c \in 1..Len(conditions) : Results(item, conditions)[c] = "True"
    ELSE \E c \in 1..Len(conditions) : Results(item, conditions)[c] = "True"

\* all(results) for AND, any(results) otherwise
Matched(item, conditions, internal_operation) ==
    IF internal_operation = "AND"
    THEN \A c \in 1..Len(conditions) : Results(item, conditions)[c] = "True"
    ELSE \E c \in 1..Len(conditions) : Results(item, conditions)[c] = "True"

\* the first loop from index idx on; matched_indices so far
RECURSIVE MatchLoop(_, _, _, _, _)
MatchLoop(db, conditions, internal_operation, idx, matched_indices) ==
    IF idx > Len(db) THEN [raised |-> FALSE, matched_indices |-> matched_indices]
    ELSE IF Raises(db[idx], conditions)
    THEN [raised |-> TRUE, matched_indices |-> matched_indices]
    ELSE MatchLoop(db, conditions, internal_operation, idx + 1,
                   IF Matched(db[idx], conditions, internal_operation)
                   THEN Append(matched_indices, idx) ELSE matched_indices)

\* the second loop over matched_indices from position k on
RECURSIVE ApplyLoop(_, _, _, _, _)
ApplyLoop(db, matched_indices, patch, k, updated_items) ==
    IF k > Len(matched_indices)
    THEN [db |-> db, status |-> "200", detail |-> NoDetail, ret |-> updated_items]
    ELSE LET idx == matched_indices[k]
             updated_item == UpdatedData(db[idx], patch)
         IN  IF ~ItemValid(updated_item)
             THEN [db |-> db, status |-> "500", detail |-> ValidationError,
                   ret |-> <<>>]
             ELSE ApplyLoop([db EXCEPT ![idx] = updated_item], matched_indices,
                            patch, k + 1, Append(updated_items, updated_item))

\* the test for an empty matched_indices is missing
ConditionalUpdateItemsNoCheck(db, conditions, internal_operation, patch) ==
    LET m == MatchLoop(db, conditions, internal_operation, 1, <<>>) IN
    IF m.raised
    THEN [db |-> db, status |-> "500", detail |-> TypeError, ret |-> <<>>]
    ELSE ApplyLoop(db, m.matched_indices, patch, 1, <<>>)

\* the items matched before a condition raises are patched all the same
ConditionalUpdateItemsPartial(db, conditions, internal_operation, patch) ==
    LET m == MatchLoop(db, conditions, internal_operation, 1, <<>>) IN
    IF m.raised
    THEN [db |-> ApplyLoop(db, m.matched_indices, patch, 1, <<>>).db,
          status |-> "500", detail |-> TypeError, ret |-> <<>>]
    ELSE IF m.matched_indices = <<>>
    THEN [db |-> db, status |-> "404", detail |-> NoMatch, ret |-> <<>>]
    ELSE ApplyLoop(db, m.matched_indices, patch, 1, <<>>)

ConditionalUpdateItems(db, conditions, internal_operation, patch) ==
    LET m == MatchLoop(db, conditions, internal_operation, 1, <<>>) IN
    IF m.raised
    THEN [db |-> db, status |-> "500", detail |-> TypeError, ret |-> <<>>]
    ELSE IF m.matched_indices = <<>>
    THEN [db |-> db, status |-> "404", detail |-> NoMatch, ret |-> <<>>]
    ELSE ApplyLoop(db, m.matched_indices, patch, 1, <<>>)

conditional_update_items(conditions, internal_operation, item_update) ==
    /\ LET r == ConditionalUpdateItems(items_db, conditions, internal_operation,
                                       item_update) IN
        /\ items_db' = r.db
        /\ last' = [Response("conditional_update_items", r.status, r.detail, r.ret)
                        EXCEPT !.conds = conditions, !.iop = internal_operation,
                               !.patch = item_update]
    /\ UNCHANGED <<item_id_counter, createdIds, deletedIds>>
    /\ UNCHANGED threads

\* ----------------------------------------------------- DELETE /items/{id}
DeleteItem(db, item_id) ==
    LET idx == Find(db, item_id) IN
    IF idx = 0
    THEN [db |-> db, status |-> "404", detail |-> NotFound, ret |-> <<>>]
    ELSE [db |-> Pop(db, idx), status |-> "204", detail |-> NoDetail, ret |-> <<>>]

delete_item(item_id) ==
    /\ LET r == DeleteItem(items_db, item_id) IN
        /\ items_db' = r.db
        /\ last' = [Response("delete_item", r.status, r.detail, r.ret)
                        EXCEPT !.id = item_id]
        /\ deletedIds' = IF r.status = "204" THEN deletedIds \cup {item_id}
                         ELSE deletedIds
    /\ UNCHANGED <<item_id_counter, createdIds>>
    /\ UNCHANGED threads

\* ------------------------------------------------------ request payloads
RECURSIVE SeqsUpTo(_, _)
SeqsUpTo(S, n) ==
    IF n = 0 THEN {<<>>}
    ELSE LET shorter == SeqsUpTo(S, n - 1) IN
         shorter \cup {Append(q, x) : q \in shorter, x \in S}

Cond(key, operation, value) == [key |-> key, operation |-> operation, value |-> value]

Draft(name, description, price) ==
    [name |-> name, description |-> description, price |-> price]

Patch(name, description, price) ==
    [name |-> name, description |-> description, price |-> price]

Drafts ==
    {Draft(Str(<<1>>), None, Num(1)),
     Draft(Str(<<2>>), Str(<<1>>), Num(2))}

Patches ==
    {NoPatch,
     Patch(Str(<<2>>), Unset, Num(2)),
     Patch(Unset, None, Unset),
     Patch(Unset, Str(<<2>>), Num(1)),
     Patch(None, Str(<<1>>), Unset)}

ItemIds == 1..MaxCreates

\* ------------------------------------------------- all seven operations
Next ==
    \/ \E item \in Drafts : item_id_counter <= MaxCreates /\ create_item(item)
    \/ get_items
    \/ \E item_id \in ItemIds : get_item(item_id)
    \/ \E item_id \in ItemIds, p \in Patches : update_item(item_id, p)
    \/ \E ids \in {<<1>>, <<2, 1>>}, p \in Patches : batch_update_items(ids, p)
    \/ \E cs \in {<<Cond("price", ">", Num(1))>>}, iop \in {"AND"}, p \in Patches :
            conditional_update_items(cs, iop, p)
    \/ \E item_id \in ItemIds : delete_item(item_id)

Spec == Init /\ [][Next]_vars

\* ------------------------------ creates, deletes and batch updates by ids
IdLists == SeqsUpTo(ItemIds, MaxIds)

BatchPatches ==
    {Patch(Str(<<2>>), Unset, Num(2)),
     Patch(None, Str(<<1>>), Unset)}

NextBatch ==
    \/ \E item \in Drafts : item_id_counter <= MaxCreates /\ create_item(item)
    \/ \E item_id \in ItemIds : delete_item(item_id)
    \/ \E ids \in IdLists, p \in BatchPatches : batch_update_items(ids, p)

SpecBatch == Init /\ [][NextBatch]_vars

\* ------------------- creates and conditional updates over up to three items
CondPatches ==
    {Patch(Str(<<2>>), None, Num(2)),
     Patch(Unset, Str(<<1>>), None)}

PriceGt1 == Cond("price", ">", Num(1))
IdIn13 == Cond("id", "IN", PyList(<<Num(1), Num(3)>>))
NameInStr == Cond("name", "IN", Str(<<1>>))
DescInList == Cond("description", "IN", PyList(<<None, Str(<<1>>)>>))
PriceLtStr == Cond("price", "<", Str(<<1>>))
DescGtNum == Cond("description", ">", Num(1))

CondLists ==
    {<<>>, <<PriceGt1>>, <<IdIn13>>, <<NameInStr>>, <<DescInList>>, <<PriceLtStr>>,
     <<PriceGt1, IdIn13>>, <<DescInList, IdIn13>>, <<NameInStr, PriceGt1>>,
     <<PriceGt1, PriceLtStr>>, <<IdIn13, DescGtNum>>}

NextCond ==
    \/ \E item \in Drafts : item_id_counter <= MaxCreates + 1 /\ create_item(item)
    \/ \E cs \in CondLists, iop \in {"AND", "OR"}, p \in CondPatches :
            conditional_update_items(cs, iop, p)

SpecCond == Init /\ [][NextCond]_vars

\* ------- creates and conditional updates by one condition of every shape
Operations == {"=", ">", "<", ">=", "<=", "IN"}
MatchKeys == {"description", "price", "color", "dict"}
MatchValues == {None, Num(1), Str(<<1>>), PyList(<<None, Num(1)>>)}
MatchPatch == Patch(Str(<<3>>), Unset, Unset)

NextMatch ==
    \/ \E item \in Drafts : item_id_counter <= MaxCreates /\ create_item(item)
    \/ \E k \in MatchKeys, op \in Operations, v \in MatchValues :
            conditional_update_items(<<Cond(k, op, v)>>, "AND", MatchPatch)

SpecMatch == Init /\ [][NextMatch]_vars

\* ================================================================ claims
\* ------------------------------ create requests served by two threads
\* the creates begun so far: items appended and items built but not appended
Started ==
    Len(items_db) + Cardinality({t \in Threads : threads[t].pc = "append"})

NextConc ==
    \/ \E t \in Threads, item \in Drafts :
            Started < MaxCreates /\ create_item_build(t, item)
    \/ \E t \in Threads : create_item_append(t)
    \/ \E t \in Threads : create_item_load(t)
    \/ \E t \in Threads : create_item_store(t)
    \/ \E t \in Threads : create_item_return(t)

SpecConc == Init /\ [][NextConc]_vars

HasId(db, item_id) == \E i \in DOMAIN db : db[i].id = item_id

\* C1: after any sequence of operations no two stored items have the same id,
\* and every stored id is at least 1 and strictly less than item_id_counter.
C1_UniqueBoundedIds ==
    /\ \A i, j \in DOMAIN items_db : i # j => items_db[i].id # items_db[j].id
    /\ \A i \in DOMAIN items_db :
            items_db[i].id >= 1 /\ items_db[i].id < item_id_counter

\* two items are stored and a batch update has just rewritten both
C1_Witness ==
    /\ Len(items_db) = 2
    /\ last.op = "batch_update_items"
    /\ last.status = "200"
    /\ Len(last.ret) = 2

\* C2: the k-th successful create returns id k whatever happened in between,
\* so each create returns an id greater than every id created before (deleted
\* ones included), and no operation other than create changes the counter.
C2_IdsNeverReused ==
    [][/\ last'.op = "create_item" =>
            /\ last'.status = "201"
            /\ last'.ret[1].id = Len(createdIds) + 1
            /\ \A k \in DOMAIN createdIds : createdIds[k] < last'.ret[1].id
            /\ item_id_counter' = item_id_counter + 1
       /\ last'.op # "create_item" => item_id_counter' = item_id_counter]_vars

\* create, delete, create: the second create returned id 2 after id 1 was deleted
C2_Witness ==
    /\ last.op = "create_item"
    /\ last.ret[1].id = 2
    /\ 1 \in deletedIds
    /\ createdIds = <<1, 2>>

\* C3: create returns the draft's name, description and price under the
\* assigned id (the counter before the call), and a get of that id right
\* after the create succeeds and returns exactly that item.
C3_CreateThenGet ==
    [][last'.op = "create_item" =>
            /\ last'.status = "201"
            /\ Len(last'.ret) = 1
            /\ last'.ret[1].id = item_id_counter
            /\ last'.ret[1].name = last'.draft.name
            /\ last'.ret[1].description = last'.draft.description
            /\ last'.ret[1].price = last'.draft.price
            /\ GetItem(items_db', item_id_counter).status = "200"
            /\ GetItem(items_db', item_id_counter).ret = last'.ret]_vars

\* a create into a store that already holds an item
C3_Witness ==
    /\ last.op = "create_item"
    /\ Len(items_db) >= 2
    /\ last.ret[1].description # None

\* C4: an update of an existing id leaves the fields the patch omits, the id,
\* the position, every other item, the length and the counter unchanged; when
\* it succeeds, each field the patch supplies holds the patch's value.
C4_UpdateFrame ==
    [][\A idx \in DOMAIN items_db :
        (last'.op = "update_item" /\ items_db[idx].id = last'.id) =>
            /\ Len(items_db') = Len(items_db)
            /\ item_id_counter' = item_id_counter
            /\ \A i \in DOMAIN items_db : i # idx => items_db'[i] = items_db[i]
            /\ items_db'[idx].id = items_db[idx].id
            /\ ~FieldSet(last'.patch.name) => items_db'[idx].name = items_db[idx].name
            /\ ~FieldSet(last'.patch.description) =>
                    items_db'[idx].description = items_db[idx].description
            /\ ~FieldSet(last'.patch.price) => items_db'[idx].price = items_db[idx].price
            /\ last'.status = "200" =>
                /\ last'.ret = <<items_db'[idx]>>
                /\ FieldSet(last'.patch.name) => items_db'[idx].name = last'.patch.name
                /\ FieldSet(last'.patch.description) =>
                        items_db'[idx].description = last'.patch.description
                /\ FieldSet(last'.patch.price) =>
                        items_db'[idx].price = last'.patch.price]_vars

\* a successful update of the first of two items by a patch that supplies
\* name and price and omits the description the item has
C4_Witness ==
    /\ last.op = "update_item"
    /\ last.status = "200"
    /\ Len(items_db) = 2
    /\ last.id = items_db[1].id
    /\ FieldSet(last.patch.name)
    /\ ~FieldSet(last.patch.description)
    /\ items_db[1].description.t = "str"

\* C5: an update of an existing id by a patch that supplies no field returns
\* the stored item and leaves the items, their order and the counter unchanged.
C5_EmptyPatch ==
    [][\A idx \in DOMAIN items_db :
        (last'.op = "update_item" /\ last'.patch = NoPatch
            /\ items_db[idx].id = last'.id) =>
            /\ last'.status = "200"
            /\ last'.ret = <<items_db[idx]>>
            /\ items_db' = items_db
            /\ item_id_counter' = item_id_counter]_vars

\* an empty patch was applied to an item without description
C5_Witness ==
    /\ last.op = "update_item"
    /\ last.patch = NoPatch
    /\ last.status = "200"
    /\ last.ret[1].description = None
    /\ Len(items_db) = 2

\* position of the first id of the list that is not in the store, 0 if none
FirstMissing(db, item_ids) ==
    IF \A k \in DOMAIN item_ids : HasId(db, item_ids[k]) THEN 0
    ELSE CHOOSE k \in DOMAIN item_ids :
            /\ ~HasId(db, item_ids[k])
            /\ \A j \in 1..(k - 1) : HasId(db, item_ids[j])

\* C6: a batch update whose id list holds an id that is not in the store fails
\* with NotFound naming the first such id; every item whose id comes before it
\* in the list is left patched, and every other item is not modified.
C6_BatchNotFoundPartial ==
    [][(last'.op = "batch_update_items" /\ FirstMissing(items_db, last'.ids) # 0) =>
        LET m == FirstMissing(items_db, last'.ids) IN
        /\ last'.status = "404"
        /\ last'.detail = NotFoundId(last'.ids[m])
        /\ Len(items_db') = Len(items_db)
        /\ \A i \in DOMAIN items_db :
            IF \E k \in 1..(m - 1) : last'.ids[k] = items_db[i].id
            THEN items_db'[i] = UpdatedData(items_db[i], last'.patch)
            ELSE items_db'[i] = items_db[i]]_vars

\* every condition of the list evaluates to a boolean on every stored item
Evaluates(db, conditions) ==
    \A i \in DOMAIN db : \A c \in DOMAIN conditions :
        match_condition(db[i], conditions[c]) \in {"True", "False"}

\* the combined conditions hold for the item: all of them with AND, at least
\* one of them with OR
Matches(item, conditions, internal_operation) ==
    IF internal_operation = "AND"
    THEN \A c \in DOMAIN conditions : match_condition(item, conditions[c]) = "True"
    ELSE \E c \in DOMAIN conditions : match_condition(item, conditions[c]) = "True"

MatchingIndices(db, conditions, internal_operation) ==
    {i \in DOMAIN db : Matches(db[i], conditions, internal_operation)}

\* the k-th smallest element of a set of indices
Kth(S, k) == CHOOSE i \in S : Cardinality({j \in S : j < i}) = k - 1

C8_NoMatchNoChange ==
    [][(/\ last'.op = "conditional_update_items"
        /\ Evaluates(items_db, last'.conds)
        /\ MatchingIndices(items_db, last'.conds, last'.iop) = {}) =>
            /\ last'.status = "404"
            /\ last'.detail = NoMatch
            /\ last'.ret = <<>>
            /\ items_db' = items_db
            /\ item_id_counter' = item_id_counter]_vars

\* NoMatch on a store of two items that the patch would have changed
C8_Witness ==
    /\ last.op = "conditional_update_items"
    /\ last.status = "404"
    /\ last.detail = NoMatch
    /\ last.conds # <<>>
    /\ Len(items_db) = 2
    /\ \A i \in DOMAIN items_db :
            /\ ItemValid(UpdatedData(items_db[i], last.patch))
            /\ items_db[i] # UpdatedData(items_db[i], last.patch)

\* C9: a delete of an existing id succeeds and removes the item; afterwards no
\* stored item ever has that id again, and every get, update and delete of it
\* fails with NotFound, whatever operations (creates included) came between.
C9_DeletePermanent ==
    [][/\ (last'.op = "delete_item" /\ HasId(items_db, last'.id)) =>
            /\ last'.status = "204"
            /\ ~HasId(items_db', last'.id)
            /\ last'.id \in deletedIds'
       /\ (last'.op \in {"get_item", "update_item", "delete_item"}
                /\ last'.id \in deletedIds) =>
            /\ last'.status = "404"
            /\ last'.detail = NotFound
       /\ \A d \in deletedIds : d \in deletedIds' /\ ~HasId(items_db', d)]_vars

\* a second delete of id 1 failed after id 2 was created in between
C9_Witness ==
    /\ last.op = "delete_item"
    /\ last.id = 1
    /\ last.status = "404"
    /\ 1 \in deletedIds
    /\ HasId(items_db, 2)

\* the item has a value for the key and it equals (Python ==) the given value
FieldEquals(item, key, value) ==
    LET v == GetAttr(item, key) IN
    /\ v.t # "null"
    /\ \/ v.t = "num" /\ value.t = "num" /\ v.n = value.n
       \/ v.t = "str" /\ value.t = "str" /\ v.s = value.s

\* the IN condition holds: its value is a list and the field equals an element
InHolds(item, condition) ==
    /\ condition.value.t = "list"
    /\ \E e \in DOMAIN condition.value.l :
            FieldEquals(item, condition.key, condition.value.l[e])

\* C10: a conditional update by one IN condition fails with NoMatch when the
\* condition value is not a list or no item's field equals an element of the
\* list; otherwise it patches the items whose field equals some element of the
\* list and no others (value [1,3] on key id: the items with id 1 and 3).
C10_InOperator ==
    [][(/\ last'.op = "conditional_update_items"
        /\ Len(last'.conds) = 1
        /\ last'.conds[1].operation = "IN") =>
        LET c == last'.conds[1]
            H == {i \in DOMAIN items_db : InHolds(items_db[i], c)}
        IN
        /\ H = {} => last'.status = "404" /\ last'.detail = NoMatch
                        /\ items_db' = items_db
        /\ last'.status = "200" =>
            /\ \A i \in DOMAIN items_db :
                IF i \in H
                THEN items_db'[i] = UpdatedData(items_db[i], last'.patch)
                ELSE items_db'[i] = items_db[i]
            /\ Len(last'.ret) = Cardinality(H)]_vars

\* id IN [1, 3] over three items: items 1 and 3 were patched, item 2 was not
C10_Witness ==
    /\ last.op = "conditional_update_items"
    /\ last.conds = <<IdIn13>>
    /\ last.status = "200"
    /\ Len(items_db) = 3
    /\ last.ret = <<items_db[1], items_db[3]>>
    /\ items_db[1].id = 1 /\ items_db[3].id = 3
    /\ items_db[2] # UpdatedData(items_db[2], last.patch)

\* C11: for an item without description every condition on the key description
\* is false, for every operation and every comparison value (null included),
\* and raises nothing: such an item is never patched by a conditional update on
\* description, and when no item has a description the update ends in NoMatch.
C11_MissingFieldNeverMatches ==
    [][(/\ last'.op = "conditional_update_items"
        /\ last'.conds # <<>>
        /\ \A c \in DOMAIN last'.conds : last'.conds[c].key = "description") =>
        /\ \A i \in DOMAIN items_db : items_db[i].description = None =>
            /\ items_db'[i] = items_db[i]
            /\ \A op \in Operations, v \in MatchValues :
                    match_condition(items_db[i], Cond("description", op, v)) = "False"
        /\ (\A i \in DOMAIN items_db : items_db[i].description = None) =>
            /\ last'.status = "404"
            /\ last'.detail = NoMatch]_vars

\* description = null was evaluated on a store of two items without description
C11_Witness ==
    /\ last.op = "conditional_update_items"
    /\ last.conds = <<Cond("description", "=", None)>>
    /\ last.status = "404"
    /\ Len(items_db) = 2
    /\ \A i \in DOMAIN items_db : items_db[i].description = None

ItemFields == {"id", "name", "description", "price"}

NoAttribute(key) == key \notin ItemFields \cup {"dict"}

Incomparable(item, condition) ==
    LET v == GetAttr(item, condition.key) IN
    /\ condition.operation \in {">", "<", ">=", "<="}
    /\ condition.key \in ItemFields
    /\ v.t \in {"num", "str"}
    /\ condition.value.t # v.t

\* C13: an ordering condition whose field value and condition value are not
\* comparable makes the conditional update fail with the declared
\* InvalidCondition error (422 or 404), not with an unhandled fault.
C13_IncomparableInvalidCondition ==
    [][(/\ last'.op = "conditional_update_items"
        /\ \E i \in DOMAIN items_db : \E c \in DOMAIN last'.conds :
                Incomparable(items_db[i], last'.conds[c])) =>
        /\ last'.status \in {"404", "422"}
        /\ last'.detail.msg = "InvalidCondition"]_vars

UpdateOps == {"update_item", "batch_update_items", "conditional_update_items"}

\* C14 as stated: a patch that sets description to null leaves every stored
\* description untouched, as a patch that omits description does.
C14_NullSameAsOmitted ==
    [][(last'.op \in UpdateOps /\ last'.patch.description = None) =>
        \A i \in DOMAIN items_db :
            items_db'[i].description = items_db[i].description]_vars

\* C14 amended: in all three update operations a patch that omits description
\* leaves every stored description untouched, while a patch that sets it to
\* null clears it: every item the operation rewrites and every item it returns
\* has no description afterwards.
C14_NullClearsDescription ==
    [][last'.op \in UpdateOps =>
        /\ Len(items_db') = Len(items_db)
        /\ last'.patch.description = Unset =>
            \A i \in DOMAIN items_db :
                items_db'[i].description = items_db[i].description
        /\ last'.patch.description = None =>
            /\ \A i \in DOMAIN items_db :
                items_db'[i] # items_db[i] => items_db'[i].description = None
            /\ \A k \in DOMAIN last'.ret :
                /\ last'.ret[k].description = None
                /\ \E i \in DOMAIN items_db' : items_db'[i] = last'.ret[k]]_vars

\* a conditional update with description null has rewritten the second item,
\* the one created with a description
C14_Witness ==
    /\ last.op = "conditional_update_items"
    /\ last.patch = Patch(Unset, None, Unset)
    /\ last.status = "200"
    /\ Len(items_db) = 2
    /\ last.ret = <<items_db[2]>>
    /\ items_db[2] = [id |-> 2, name |-> Str(<<2>>), description |-> None,
                      price |-> Num(2)]
    /\ createdIds = <<1, 2>>

\* C15: a batch update whose ids all exist returns one merged record per entry
\* of the id list, in list order (an id listed twice gives two entries); each
\* returned record is the item stored under that id afterwards, and the items
\* whose id is not listed are unchanged.
C15_BatchReturnsPerEntry ==
    [][(/\ last'.op = "batch_update_items"
        /\ \A k \in DOMAIN last'.ids : HasId(items_db, last'.ids[k])) =>
        /\ last'.status = "200"
        /\ Len(last'.ret) = Len(last'.ids)
        /\ Len(items_db') = Len(items_db)
        /\ \A k \in DOMAIN last'.ids :
            /\ last'.ret[k].id = last'.ids[k]
            /\ \E i \in DOMAIN items_db :
                /\ items_db[i].id = last'.ids[k]
                /\ last'.ret[k] = UpdatedData(items_db[i], last'.patch)
                /\ items_db'[i] = last'.ret[k]
        /\ \A i \in DOMAIN items_db :
            (\A k \in DOMAIN last'.ids : last'.ids[k] # items_db[i].id) =>
                items_db'[i] = items_db[i]]_vars

SatisfiesItemConstraints(item) ==
    /\ item.name.t = "str"
    /\ Len(item.name.s) \in MinNameLen..MaxNameLen
    /\ \/ item.description = None
       \/ item.description.t = "str" /\ Len(item.description.s) <= MaxDescLen
    /\ item.price.t = "num"
    /\ item.price.n > 0

\* C17: every stored item satisfies the Item constraints after any sequence of
\* operations; a patch with null for name or price never gets stored.
C17_StoredItemsValid ==
    \A i \in DOMAIN items_db : SatisfiesItemConstraints(items_db[i])

\* an update with name null was attempted on a stored item and refused
C17_Witness ==
    /\ last.op = "update_item"
    /\ last.patch.name = None
    /\ HasId(items_db, last.id)
    /\ last.status = "500"
    /\ last.detail = ValidationError

\* C18: conditionalBatchUpdate is all-or-nothing: whenever it fails, with
\* NoMatch, with an error raised while a condition is evaluated on any item, or
\* otherwise, no item of the store has been modified.
C18_ConditionalAllOrNothing ==
    [][(last'.op = "conditional_update_items" /\ last'.status # "200") =>
        /\ last'.ret = <<>>
        /\ items_db' = items_db]_vars

\* a condition has raised on a later item after the first item had matched a
\* patch that would have changed it
C18_Witness ==
    /\ last.op = "conditional_update_items"
    /\ last.status = "500"
    /\ last.detail = TypeError
    /\ Len(items_db) >= 2
    /\ ~Raises(items_db[1], last.conds)
    /\ Matched(items_db[1], last.conds, last.iop)
    /\ ItemValid(UpdatedData(items_db[1], last.patch))
    /\ UpdatedData(items_db[1], last.patch) # items_db[1]
    /\ \E i \in 2..Len(items_db) : Raises(items_db[i], last.conds)

NullRequired(patch) == patch.name = None \/ patch.price = None

C20_ConcurrentCreatesDistinctIds ==
    /\ \A t, u \in Threads :
            (t # u /\ threads[t].new_item # <<>> /\ threads[u].new_item # <<>>) =>
                threads[t].new_item[1].id # threads[u].new_item[1].id
    /\ \A i, j \in DOMAIN items_db : i < j => items_db[i].id # items_db[j].id
====
